---- MODULE Spec2Model ----
(***************************************************************************)
(* FluxCharge collector (src/src/collector.py): the SQLite store, the      *)
(* calendar classifier, the traffic estimator, the occupancy model and the *)
(* collection cycle, as a state machine.                                   *)
(*                                                                         *)
(* Numbers: floats are fixed-point integers.  Traffic volumes and noise    *)
(* are in thousandths (0.1 = 100); probabilities and the uniform draw are  *)
(* in ten-thousandths (0.95 = 9500), so volume * 0.7 is volume * 7.        *)
(* The columns created_at / collected_at (DEFAULT CURRENT_TIMESTAMP) are   *)
(* written by SQLite itself and read by no operation; rows leave them out. *)
(***************************************************************************)
EXTENDS Integers, Sequences, FiniteSets, TLC

\* ------------------------------------------------------------------ bounds
MaxCycles == 2
MaxTicks == 1
MaxCalls == 2
MaxListLen == 2
MaxStations == 2

\* ------------------------------------------------------- program constants
WeatherSampleLimit == 3
DefaultPowerKw == 22
DefaultTrafficVolume == 500
AvgSpeedBase == 50

\* Python's None where a text value is expected (SQL NULL in a TEXT column)
None == "None"

\* --------------------------------------------------------------- calendar
SWEDISH_HOLIDAYS ==
  [y \in {2025, 2026} |->
     IF y = 2025
     THEN {"2025-01-01", "2025-01-06", "2025-04-18", "2025-04-20", "2025-04-21",
           "2025-05-01", "2025-05-29", "2025-06-06", "2025-06-20", "2025-06-21",
           "2025-12-24", "2025-12-25", "2025-12-26", "2025-12-31"}
     ELSE {"2026-01-01", "2026-01-06", "2026-04-03", "2026-04-05", "2026-04-06",
           "2026-05-01", "2026-05-14", "2026-06-06", "2026-06-19", "2026-06-20",
           "2026-12-24", "2026-12-25", "2026-12-26", "2026-12-31"}]

Date(y, m, d) == [year |-> y, month |-> m, day |-> d]

is_leap(y) == y % 4 = 0 /\ (y % 100 # 0 \/ y % 400 = 0)

days_in_month(y, m) ==
  IF m = 2 THEN (IF is_leap(y) THEN 29 ELSE 28)
  ELSE IF m \in {4, 6, 9, 11} THEN 30 ELSE 31

RECURSIVE days_before_month(_, _)
days_before_month(y, m) ==
  IF m = 1 THEN 0 ELSE days_before_month(y, m - 1) + days_in_month(y, m - 1)

days_before_year(y) ==
  (y - 1) * 365 + ((y - 1) \div 4) - ((y - 1) \div 100) + ((y - 1) \div 400)

\* date.toordinal(): 0001-01-01 is day 1
toordinal(d) == days_before_year(d.year) + days_before_month(d.year, d.month) + d.day

\* date.weekday(): Monday = 0 .. Sunday = 6
weekday_of(d) == (toordinal(d) + 6) % 7

isoweek1monday(y) ==
  LET firstday == toordinal(Date(y, 1, 1))
      firstweekday == (firstday + 6) % 7
      week1monday == firstday - firstweekday
  IN  IF firstweekday > 3 THEN week1monday + 7 ELSE week1monday

\* date.isocalendar()[1]
iso_week(d) ==
  LET today == toordinal(d)
      week == (today - isoweek1monday(d.year)) \div 7
  IN  IF today < isoweek1monday(d.year)
      THEN ((today - isoweek1monday(d.year - 1)) \div 7) + 1
      ELSE IF week >= 52 /\ today >= isoweek1monday(d.year + 1)
           THEN 1
           ELSE week + 1

Pad2(n) == IF n < 10 THEN "0" \o ToString(n) ELSE ToString(n)

\* check_date.strftime("%Y-%m-%d") (years of four digits)
strftime(d) == ToString(d.year) \o "-" \o Pad2(d.month) \o "-" \o Pad2(d.day)

holidays_get(y) == IF y \in DOMAIN SWEDISH_HOLIDAYS THEN SWEDISH_HOLIDAYS[y] ELSE {}

\* mutant: the weekend test comes before the holiday-table lookup
MutantWeekendFirst(check_date) ==
  IF weekday_of(check_date) >= 5
  THEN <<TRUE, "Weekend">>
  ELSE IF strftime(check_date) \in holidays_get(check_date.year)
       THEN <<TRUE, "Swedish Holiday">>
       ELSE <<FALSE, None>>

is_holiday(check_date) ==
  IF strftime(check_date) \in holidays_get(check_date.year)
  THEN <<TRUE, "Swedish Holiday">>
  ELSE IF weekday_of(check_date) >= 5
       THEN <<TRUE, "Weekend">>
       ELSE <<FALSE, None>>

SchoolBreakWeeks == {7, 8, 9, 27, 28, 29, 30, 31, 32}

get_calendar_context(check_date) ==
  [date |-> check_date,
   is_holiday |-> is_holiday(check_date)[1],
   holiday_name |-> is_holiday(check_date)[2],
   day_of_week |-> weekday_of(check_date),
   week_number |-> iso_week(check_date),
   is_weekend |-> weekday_of(check_date) >= 5,
   is_school_break |-> iso_week(check_date) \in SchoolBreakWeeks]

next_date(d) ==
  IF d.day < days_in_month(d.year, d.month) THEN Date(d.year, d.month, d.day + 1)
  ELSE IF d.month < 12 THEN Date(d.year, d.month + 1, 1)
  ELSE Date(d.year + 1, 1, 1)

\* ------------------------------------------------------------------ store
VARIABLES
  stations,          \* rows of table stations, in insertion order
  stations_seq,      \* sqlite_sequence of stations (AUTOINCREMENT: last id handed out)
  status_history,    \* rows of table status_history
  weather_history,   \* rows of table weather_history
  traffic_history,   \* rows of table traffic_history
  calendar_context,  \* rows of table calendar_context
  calendar_seq,      \* sqlite_sequence of calendar_context
  pre,               \* the tables as they were when the current call or cycle began
  last,              \* the last direct call of a store operation and its outcome
  calls,             \* number of direct calls made so far
  demo_stations,     \* the catalog fetch_stations_from_trafikverket builds its list from
  now,               \* the clock: [date, hour]
  ticks,             \* number of times the clock has advanced
  pc,                \* where the collector is
  cycle,             \* number of collection cycles started
  stations_list,     \* collect_data: the result of get_all_stations()
  idx,               \* collect_data: position of the loop in stations_list
  loc,               \* simulate_status_with_traffic: the locals of its latest call
  log                \* what has happened in the current cycle

\* sqlite3.connect() leaves PRAGMA foreign_keys at its default, OFF, and no
\* connection of the collector turns it on: the FOREIGN KEY clauses of the
\* schema are parsed and not enforced.
foreign_keys == FALSE

Ids(table) == {table[k].id : k \in 1..Len(table)}

Tables ==
  [stations |-> stations, status_history |-> status_history,
   weather_history |-> weather_history, traffic_history |-> traffic_history,
   calendar_context |-> calendar_context]

RequiredStationKeys == {"external_id", "name", "latitude", "longitude", "operator"}

\* dict.get(key, default)
Get(d, key, default) == IF key \in DOMAIN d THEN d[key] ELSE default

StationRow(id, station) ==
  [id |-> id,
   external_id |-> station["external_id"],
   name |-> station["name"],
   latitude |-> station["latitude"],
   longitude |-> station["longitude"],
   municipality |-> Get(station, "municipality", "Unknown"),
   operator |-> station["operator"],
   power_kw |-> Get(station, "power_kw", DefaultPowerKw),
   connectors |-> Get(station, "connectors", "")]

\* The UNIQUE constraint on external_id: does the row conflict with a stored one?
MutantConflictsNever(rows, ext) == FALSE
Conflicts(rows, ext) == \E k \in 1..Len(rows) : rows[k].external_id = ext

\* One pass of the loop body of add_stations_to_db on the table t = [rows, seq]:
\* a missing required key raises KeyError before execute, a failing execute
\* raises sqlite3.Error; both are caught and logged, and the row is skipped.
\* INSERT OR IGNORE takes the next AUTOINCREMENT id before it checks the
\* UNIQUE constraint, so an ignored row uses up an id.
MutantInsertOrReplace(t, station, fails) ==
  IF ~(RequiredStationKeys \subseteq DOMAIN station) \/ fails
  THEN [rows |-> t.rows, seq |-> t.seq, rowcount |-> 0]
  ELSE IF Conflicts(t.rows, station["external_id"])
       THEN [rows |-> [k \in 1..Len(t.rows) |->
                         IF t.rows[k].external_id = station["external_id"]
                         THEN StationRow(t.rows[k].id, station) ELSE t.rows[k]],
             seq |-> t.seq + 1, rowcount |-> 0]
       ELSE [rows |-> Append(t.rows, StationRow(t.seq + 1, station)),
             seq |-> t.seq + 1, rowcount |-> 1]
insert_or_ignore(t, station, fails) ==
  IF ~(RequiredStationKeys \subseteq DOMAIN station) \/ fails
  THEN [rows |-> t.rows, seq |-> t.seq, rowcount |-> 0]
  ELSE IF Conflicts(t.rows, station["external_id"])
       THEN [rows |-> t.rows, seq |-> t.seq + 1, rowcount |-> 0]
       ELSE [rows |-> Append(t.rows, StationRow(t.seq + 1, station)),
             seq |-> t.seq + 1, rowcount |-> 1]

\* add_stations_to_db(stations): the table and the count after the list
\* positions k..Len(list); failing is the set of positions whose execute raises.
RECURSIVE add_stations_loop(_, _, _, _, _)
MutantCountsEveryRow(t, list, k, count, failing) ==
  IF k > Len(list) THEN [rows |-> t.rows, seq |-> t.seq, count |-> count]
  ELSE LET r == insert_or_ignore(t, list[k], k \in failing)
       IN  add_stations_loop(r, list, k + 1, count + 1, failing)
add_stations_loop(t, list, k, count, failing) ==
  IF k > Len(list) THEN [rows |-> t.rows, seq |-> t.seq, count |-> count]
  ELSE LET r == insert_or_ignore(t, list[k], k \in failing)
       IN  add_stations_loop(r, list, k + 1, count + r.rowcount, failing)

add_stations_to_db(rows, seq, list, failing) ==
  add_stations_loop([rows |-> rows, seq |-> seq], list, 1, 0, failing)

\* INSERT into a history table: the id is the next AUTOINCREMENT value (no
\* row of a history table is ever ignored or deleted, so that is Len + 1);
\* the foreign key is checked only when the pragma is on.
fk_violation(station_id) == foreign_keys /\ station_id \notin Ids(stations)

StatusRow(table, station_id, status, available) ==
  [id |-> Len(table) + 1, station_id |-> station_id, status |-> status,
   available_connectors |-> available]

WeatherRow(table, station_id, weather) ==
  [id |-> Len(table) + 1, station_id |-> station_id,
   temperature |-> Get(weather, "temperature", None),
   weather_condition |-> Get(weather, "weather_condition", None),
   wind_speed |-> Get(weather, "wind_speed", None),
   precipitation |-> Get(weather, "precipitation", None)]

TrafficRow(table, station_id, traffic) ==
  [id |-> Len(table) + 1, station_id |-> station_id,
   traffic_volume |-> Get(traffic, "traffic_volume", None),
   avg_speed |-> Get(traffic, "avg_speed", None)]

MutantRecordStatusOverwrites(table, station_id, status, available) ==
  IF \E k \in 1..Len(table) : table[k].station_id = station_id
  THEN [k \in 1..Len(table) |->
          IF table[k].station_id = station_id
          THEN [table[k] EXCEPT !.status = status, !.available_connectors = available]
          ELSE table[k]]
  ELSE Append(table, StatusRow(table, station_id, status, available))
record_status(table, station_id, status, available) ==
  IF fk_violation(station_id) THEN table
  ELSE Append(table, StatusRow(table, station_id, status, available))

record_weather(table, station_id, weather) ==
  IF fk_violation(station_id) THEN table
  ELSE Append(table, WeatherRow(table, station_id, weather))

record_traffic(table, station_id, traffic) ==
  IF fk_violation(station_id) THEN table
  ELSE Append(table, TrafficRow(table, station_id, traffic))

\* save_calendar_context: INSERT OR IGNORE on the UNIQUE date
CalendarRow(id, calendar_data) ==
  [id |-> id,
   date |-> calendar_data.date,
   is_holiday |-> calendar_data.is_holiday,
   holiday_name |-> calendar_data.holiday_name,
   day_of_week |-> calendar_data.day_of_week,
   week_number |-> calendar_data.week_number,
   is_weekend |-> calendar_data.is_weekend,
   is_school_break |-> calendar_data.is_school_break]

MutantDateNeverStored(rows, d) == FALSE
DateStored(rows, d) == \E k \in 1..Len(rows) : rows[k].date = d

save_calendar_context(rows, calendar_data) ==
  IF DateStored(rows, calendar_data.date) THEN rows
  ELSE Append(rows, CalendarRow(calendar_seq + 1, calendar_data))

\* get_all_stations(): SELECT id, external_id, name, latitude, longitude,
\* operator, municipality FROM stations, in rowid order
MutantStationDictShiftedId(row) ==
  [id |-> row.id + 1, external_id |-> row.external_id, name |-> row.name,
   latitude |-> row.latitude, longitude |-> row.longitude,
   operator |-> row.operator, municipality |-> row.municipality]
StationDict(row) ==
  [id |-> row.id, external_id |-> row.external_id, name |-> row.name,
   latitude |-> row.latitude, longitude |-> row.longitude,
   operator |-> row.operator, municipality |-> row.municipality]

MutantGetAllButLast(rows) == [k \in 1..(Len(rows) - 1) |-> StationDict(rows[k])]
get_all_stations(rows) == [k \in 1..Len(rows) |-> StationDict(rows[k])]

store_vars == <<stations, stations_seq, status_history, weather_history,
                traffic_history, calendar_context, calendar_seq>>
cycle_vars == <<demo_stations, now, ticks, pc, cycle, stations_list, idx, loc, log>>
vars == <<stations, stations_seq, status_history, weather_history, traffic_history,
          calendar_context, calendar_seq, pre, last, calls, demo_stations, now,
          ticks, pc, cycle, stations_list, idx, loc, log>>

\* ---------------------------------------------------------- station catalog
DemoStations ==
  << [name |-> "Boras Centrum", lat |-> 577211, lon |-> 129405,
      municipality |-> "Boras", operator |-> "Recharge"],
     [name |-> "Boras Arena", lat |-> 577357, lon |-> 129348,
      municipality |-> "Boras", operator |-> "Circle K"],
     [name |-> "Korsangsgatan Boras", lat |-> 577174, lon |-> 129396,
      municipality |-> "Boras", operator |-> "OKQ8"],
     [name |-> "Boras Restad", lat |-> 577429, lon |-> 129318,
      municipality |-> "Boras", operator |-> "Recharge"],
     [name |-> "Borgsten", lat |-> 577577, lon |-> 129188,
      municipality |-> "Boras", operator |-> "Circle K"] >>

DemoConnectors == "[{type:CCS2,count:2,power:22},{type:CHAdeMO,count:1,power:50}]"

\* s['municipality'][:3].upper()
Upper3(municipality) == IF municipality = "Boras" THEN "BOR" ELSE "UNK"

\* f"{i:04d}" for 0 <= i < 10000
Pad4(i) ==
  IF i < 10 THEN "000" \o ToString(i)
  ELSE IF i < 100 THEN "00" \o ToString(i)
  ELSE IF i < 1000 THEN "0" \o ToString(i) ELSE ToString(i)

CatalogEntry(s, i) ==
  [external_id |-> "SE-" \o Upper3(s.municipality) \o "-" \o Pad4(i),
   name |-> s.name,
   latitude |-> s.lat,
   longitude |-> s.lon,
   municipality |-> s.municipality,
   operator |-> s.operator,
   power_kw |-> DefaultPowerKw,
   connectors |-> DemoConnectors]

fetch_stations_from_trafikverket(demo) ==
  [i \in 1..Len(demo) |-> CatalogEntry(demo[i], i)]

\* ------------------------------------------------ direct calls of the store
\* Station dicts a caller may pass: the catalog's first entry, the same one
\* renamed upstream (same external_id, other fields), the second entry
\* without its optional keys, and one without its external_id.
Renamed(station) == [station EXCEPT !.name = "Renamed", !.operator = "OKQ8"]
WithoutKeys(station, keys) == [k \in (DOMAIN station) \ keys |-> station[k]]

InputStations ==
  LET c == fetch_stations_from_trafikverket(DemoStations)
  IN  {c[1], Renamed(c[1]),
       WithoutKeys(c[2], {"municipality", "power_kw", "connectors"}),
       WithoutKeys(c[1], {"external_id"})}

InputLists ==
  UNION {[1..n -> InputStations] : n \in 0..MaxListLen}

InputStationIds == 1..2

InputStatus == {<<"unknown", 0>>, <<"available", 2>>}

InputWeather ==
  [temperature |-> 5, weather_condition |-> "113", wind_speed |-> 0,
   precipitation |-> 0]

InputTraffic == [traffic_volume |-> 500, avg_speed |-> 50]

InputDates == {Date(2025, 6, 5), Date(2025, 6, 6)}

\* calendar dicts a caller may pass: what get_calendar_context builds, and
\* one that differs from it on a date get_calendar_context also yields
InputCalendar ==
  {get_calendar_context(d) : d \in InputDates}
    \cup {[get_calendar_context(Date(2025, 6, 5)) EXCEPT !.is_school_break = TRUE]}

NoCall == [op |-> "none", arg |-> <<>>, ret |-> 0, err |-> None, again |-> FALSE]

Call_add_stations_to_db(list) ==
  /\ calls < MaxCalls
  /\ LET r == add_stations_to_db(stations, stations_seq, list, {})
     IN  /\ stations' = r.rows
         /\ stations_seq' = r.seq
         /\ last' = [op |-> "add_stations_to_db", arg |-> list, ret |-> r.count,
                     err |-> None,
                     again |-> last.op = "add_stations_to_db" /\ last.arg = list]
  /\ pre' = Tables
  /\ calls' = calls + 1
  /\ UNCHANGED <<status_history, weather_history, traffic_history,
                 calendar_context, calendar_seq>>
  /\ UNCHANGED cycle_vars

Call_record_status(station_id, status, available) ==
  /\ calls < MaxCalls
  /\ status_history' = record_status(status_history, station_id, status, available)
  /\ last' = [op |-> "record_status", arg |-> <<station_id>>, ret |-> 0,
              err |-> IF fk_violation(station_id) THEN "IntegrityError" ELSE None,
              again |-> FALSE]
  /\ pre' = Tables
  /\ calls' = calls + 1
  /\ UNCHANGED <<stations, stations_seq, weather_history, traffic_history,
                 calendar_context, calendar_seq>>
  /\ UNCHANGED cycle_vars

Call_record_weather(station_id, weather) ==
  /\ calls < MaxCalls
  /\ weather_history' = record_weather(weather_history, station_id, weather)
  /\ last' = [op |-> "record_weather", arg |-> <<station_id>>, ret |-> 0,
              err |-> IF fk_violation(station_id) THEN "IntegrityError" ELSE None,
              again |-> FALSE]
  /\ pre' = Tables
  /\ calls' = calls + 1
  /\ UNCHANGED <<stations, stations_seq, status_history, traffic_history,
                 calendar_context, calendar_seq>>
  /\ UNCHANGED cycle_vars

Call_record_traffic(station_id, traffic) ==
  /\ calls < MaxCalls
  /\ traffic_history' = record_traffic(traffic_history, station_id, traffic)
  /\ last' = [op |-> "record_traffic", arg |-> <<station_id>>, ret |-> 0,
              err |-> IF fk_violation(station_id) THEN "IntegrityError" ELSE None,
              again |-> FALSE]
  /\ pre' = Tables
  /\ calls' = calls + 1
  /\ UNCHANGED <<stations, stations_seq, status_history, weather_history,
                 calendar_context, calendar_seq>>
  /\ UNCHANGED cycle_vars

Call_save_calendar_context(calendar_data) ==
  /\ calls < MaxCalls
  /\ calendar_context' = save_calendar_context(calendar_context, calendar_data)
  /\ calendar_seq' = calendar_seq + 1
  /\ last' = [op |-> "save_calendar_context", arg |-> <<calendar_data>>, ret |-> 0,
              err |-> None, again |-> FALSE]
  /\ pre' = Tables
  /\ calls' = calls + 1
  /\ UNCHANGED <<stations, stations_seq, status_history, weather_history,
                 traffic_history>>
  /\ UNCHANGED cycle_vars

\* The state init_database() leaves on a fresh file: every table empty.
InitStoreTables ==
  /\ stations = <<>>
  /\ stations_seq = 0
  /\ status_history = <<>>
  /\ weather_history = <<>>
  /\ traffic_history = <<>>
  /\ calendar_context = <<>>
  /\ calendar_seq = 0
  /\ pre = [stations |-> <<>>, status_history |-> <<>>, weather_history |-> <<>>,
            traffic_history |-> <<>>, calendar_context |-> <<>>]
  /\ last = NoCall
  /\ calls = 0

\* the locals of simulate_status_with_traffic before its first call: station
\* (the id of its argument), entered (the clock when the call began), hour,
\* weekday, traffic_hour (the hour its fetch_traffic_for_location read),
\* traffic_volume, today, base_occupied_prob and rand
NoLocals ==
  [station |-> 0, entered |-> None, hour |-> -1, weekday |-> -1, traffic_hour |-> -1,
   traffic_volume |-> -1, today |-> None, base_occupied_prob |-> 0, rand |-> -1]
NoLog == [today |-> None, weather_failed |-> {}, error |-> None, error_idx |-> 0]

InitCollectorIdle ==
  /\ pc = "idle"
  /\ cycle = 0
  /\ ticks = 0
  /\ stations_list = <<>>
  /\ idx = 0
  /\ loc = NoLocals
  /\ log = NoLog

InitStore ==
  /\ InitStoreTables
  /\ InitCollectorIdle
  /\ demo_stations = DemoStations
  /\ now = [date |-> Date(2025, 6, 5), hour |-> 8]

NextStore ==
  \/ \E list \in InputLists : Call_add_stations_to_db(list)
  \/ \E id \in InputStationIds, st \in InputStatus : Call_record_status(id, st[1], st[2])
  \/ \E id \in InputStationIds : Call_record_weather(id, InputWeather)
  \/ \E id \in InputStationIds : Call_record_traffic(id, InputTraffic)
  \/ \E c \in InputCalendar : Call_save_calendar_context(c)

SpecStore == InitStore /\ [][NextStore]_vars

\* ------------------------------------------------------- traffic estimator
\* fetch_traffic_for_location, given the hour it reads from the clock and its
\* two uniform draws: noise in [-0.1, 0.1], speed_noise in [-20, 20]
base_volume(hour) ==
  IF 7 <= hour /\ hour <= 9 THEN 800
  ELSE IF 16 <= hour /\ hour <= 18 THEN 900
  ELSE IF 10 <= hour /\ hour <= 15 THEN 500
  ELSE IF 19 <= hour /\ hour <= 21 THEN 400
  ELSE 100

\* mutant: the noise is twice as wide as the code's uniform(-0.1, 0.1)
MutantNoiseDoubled(hour, noise, speed_noise) ==
  [traffic_volume |-> base_volume(hour) + 2 * noise,
   avg_speed |-> AvgSpeedBase + speed_noise]

fetch_traffic_for_location(hour, noise, speed_noise) ==
  [traffic_volume |-> base_volume(hour) + noise,
   avg_speed |-> AvgSpeedBase + speed_noise]

\* -------------------------------------------------------- occupancy model
\* Python's None where a dict is expected (a fetch that returned nothing)
NoSample == [none |-> TRUE]

\* traffic.get('traffic_volume', 0.5) if traffic else 0.5
traffic_volume_of(traffic) ==
  IF traffic = NoSample THEN DefaultTrafficVolume
  ELSE Get(traffic, "traffic_volume", DefaultTrafficVolume)

is_rush(hour) == (7 <= hour /\ hour <= 9) \/ (16 <= hour /\ hour <= 18)
is_night(hour) == 22 <= hour \/ hour <= 5

\* mutant: the probability is clamped to [0, 1]
MutantClampedProb(traffic_volume, hour, weekday, is_hol) ==
  LET p0 == traffic_volume * 7
      p1 == IF weekday < 5
            THEN (IF is_rush(hour) THEN p0 + 1500
                  ELSE IF is_night(hour) THEN p0 - 3000 ELSE p0)
            ELSE p0
      p2 == IF is_hol THEN p1 + 2000 ELSE p1
  IN  IF p2 < 0 THEN 0 ELSE IF p2 > 10000 THEN 10000 ELSE p2

base_occupied_prob(traffic_volume, hour, weekday, is_hol) ==
  LET p0 == traffic_volume * 7
      p1 == IF weekday < 5
            THEN (IF is_rush(hour) THEN p0 + 1500
                  ELSE IF is_night(hour) THEN p0 - 3000 ELSE p0)
            ELSE p0
  IN  IF is_hol THEN p1 + 2000 ELSE p1

\* the branch on rand = random.random() and k = random.randint(1, 4)
MutantSampleOccupiedKeepsCount(p, rand, k) ==
  IF rand < 10000 - p THEN <<"available", k>>
  ELSE IF rand < 9500 THEN <<"occupied", k>>
  ELSE <<"unknown", 0>>
\* mutant: the occupied threshold includes 0.95
MutantOccupiedInclusive(p, rand, k) ==
  IF rand < 10000 - p THEN <<"available", k>>
  ELSE IF rand <= 9500 THEN <<"occupied", 0>>
  ELSE <<"unknown", 0>>
sample_status(p, rand, k) ==
  IF rand < 10000 - p THEN <<"available", k>>
  ELSE IF rand < 9500 THEN <<"occupied", 0>>
  ELSE <<"unknown", 0>>

\* -------------------------------------------------------- collection cycle
\* list.index(x): 0-based position of the first element equal to x
IndexOf(list, x) ==
  (CHOOSE k \in 1..Len(list) :
      list[k] = x /\ \A j \in 1..(k - 1) : list[j] # x) - 1

Station == stations_list[idx]

WeatherSample ==
  [temperature |-> 5, weather_condition |-> "113", wind_speed |-> 12,
   precipitation |-> 0]

\* what fetch_weather_for_station returns: a sample, or None on a timeout,
\* an exception or a status other than 200
WeatherOutcomes == {WeatherSample, NoSample}

advance(t) ==
  IF t.hour < 23 THEN [date |-> t.date, hour |-> t.hour + 1]
  ELSE [date |-> next_date(t.date), hour |-> 0]

\* The clock moves on while the collector runs or sleeps.
Tick ==
  /\ ticks < MaxTicks
  /\ pc \notin {"crashed", "stopped"}
  /\ now' = advance(now)
  /\ ticks' = ticks + 1
  /\ UNCHANGED store_vars
  /\ UNCHANGED <<pre, last, calls, demo_stations, pc, cycle, stations_list, idx,
                 loc, log>>

BeginCycle ==
  /\ pc' = "calendar"
  /\ cycle' = cycle + 1
  /\ pre' = Tables
  /\ log' = NoLog
  /\ loc' = NoLocals
  /\ stations_list' = <<>>
  /\ idx' = 0
  /\ UNCHANGED store_vars
  /\ UNCHANGED <<last, calls, demo_stations, now, ticks>>

\* the first collect_data() of __main__ and of run_collector
FirstCollect ==
  /\ pc = "idle"
  /\ BeginCycle

\* run_collector: collect_data() has returned and the loop enters
\* time.sleep(COLLECTION_INTERVAL_MINUTES * 60)
Sleep ==
  /\ pc = "done"
  /\ cycle < MaxCycles
  /\ pc' = "sleeping"
  /\ UNCHANGED store_vars
  /\ UNCHANGED <<pre, last, calls, demo_stations, now, ticks, cycle, stations_list,
                 idx, loc, log>>

\* mutant: the next collect_data() is started by a timer, whether or not the
\* previous one has returned
MutantCollectOnTimer ==
  /\ pc \notin {"idle", "crashed", "stopped"}
  /\ cycle < MaxCycles
  /\ BeginCycle

\* run_collector: time.sleep(...) returns and the loop calls collect_data()
SleepThenCollect ==
  /\ pc = "sleeping"
  /\ cycle < MaxCycles
  /\ BeginCycle

\* collect_data: today = date.today(); save_calendar_context(get_calendar_context(today))
SaveCalendar ==
  /\ pc = "calendar"
  /\ calendar_context' =
       save_calendar_context(calendar_context, get_calendar_context(now.date))
  /\ calendar_seq' = calendar_seq + 1
  /\ pc' = "sync"
  /\ log' = [log EXCEPT !.today = strftime(now.date)]
  /\ UNCHANGED <<stations, stations_seq, status_history, weather_history,
                 traffic_history>>
  /\ UNCHANGED <<pre, last, calls, demo_stations, now, ticks, cycle, stations_list,
                 idx, loc>>

\* collect_data: the catalog sync and stations_list = get_all_stations()
SyncCatalog(failing) ==
  /\ pc = "sync"
  /\ LET fetched == fetch_stations_from_trafikverket(demo_stations)
         r == IF fetched # <<>>
              THEN add_stations_to_db(stations, stations_seq, fetched, failing)
              ELSE [rows |-> stations, seq |-> stations_seq, count |-> 0]
     IN  /\ failing \subseteq 1..Len(fetched)
         /\ stations' = r.rows
         /\ stations_seq' = r.seq
         /\ stations_list' = get_all_stations(r.rows)
         /\ idx' = 1
         /\ pc' = IF Len(get_all_stations(r.rows)) = 0 THEN "done" ELSE "traffic"
  /\ UNCHANGED <<status_history, weather_history, traffic_history,
                 calendar_context, calendar_seq>>
  /\ UNCHANGED <<pre, last, calls, demo_stations, now, ticks, cycle, loc, log>>

\* collect_data, loop body: traffic = fetch_traffic_for_location(...);
\* if traffic: record_traffic(station['id'], traffic)
CollectTraffic(noise, speed_noise) ==
  /\ pc = "traffic"
  /\ LET traffic == fetch_traffic_for_location(now.hour, noise, speed_noise)
     IN  traffic_history' =
           IF traffic # NoSample
           THEN record_traffic(traffic_history, Station.id, traffic)
           ELSE traffic_history
  /\ pc' = "weather"
  /\ UNCHANGED <<stations, stations_seq, status_history, weather_history,
                 calendar_context, calendar_seq>>
  /\ UNCHANGED <<pre, last, calls, demo_stations, now, ticks, cycle, stations_list,
                 idx, loc, log>>

\* collect_data: if weather: record_weather(station['id'], weather)
MutantRecordUnsampled(table, station_id, weather) ==
  record_weather(table, station_id, weather)
record_if_sampled(table, station_id, weather) ==
  IF weather # NoSample THEN record_weather(table, station_id, weather) ELSE table

\* collect_data, loop body: the weather of the first three stations
CollectWeather(weather) ==
  /\ pc = "weather"
  /\ IF IndexOf(stations_list, Station) < WeatherSampleLimit
     THEN /\ weather_history' = record_if_sampled(weather_history, Station.id, weather)
          /\ log' = IF weather = NoSample
                    THEN [log EXCEPT !.weather_failed = @ \cup {Station.id}]
                    ELSE log
     ELSE UNCHANGED <<weather_history, log>>
  /\ pc' = "sim_hour"
  /\ UNCHANGED <<stations, stations_seq, status_history, traffic_history,
                 calendar_context, calendar_seq>>
  /\ UNCHANGED <<pre, last, calls, demo_stations, now, ticks, cycle, stations_list,
                 idx, loc>>

\* simulate_status_with_traffic: hour = datetime.now().hour
SimReadHour ==
  /\ pc = "sim_hour"
  /\ loc' = [NoLocals EXCEPT !.station = Station.id, !.entered = now, !.hour = now.hour]
  /\ pc' = "sim_weekday"
  /\ UNCHANGED store_vars
  /\ UNCHANGED <<pre, last, calls, demo_stations, now, ticks, cycle, stations_list,
                 idx, log>>

\* simulate_status_with_traffic: weekday = datetime.now().weekday()
SimReadWeekday ==
  /\ pc = "sim_weekday"
  /\ loc' = [loc EXCEPT !.weekday = weekday_of(now.date)]
  /\ pc' = "sim_traffic"
  /\ UNCHANGED store_vars
  /\ UNCHANGED <<pre, last, calls, demo_stations, now, ticks, cycle, stations_list,
                 idx, log>>

\* simulate_status_with_traffic: its own call of fetch_traffic_for_location
SimFetchTraffic(noise, speed_noise) ==
  /\ pc = "sim_traffic"
  /\ loc' = [loc EXCEPT !.traffic_hour = now.hour,
                        !.traffic_volume =
               traffic_volume_of(fetch_traffic_for_location(now.hour, noise, speed_noise))]
  /\ pc' = "sim_sample"
  /\ UNCHANGED store_vars
  /\ UNCHANGED <<pre, last, calls, demo_stations, now, ticks, cycle, stations_list,
                 idx, log>>

\* simulate_status_with_traffic from today = date.today() to its return, and
\* collect_data's record_status(station['id'], status, available); then the
\* loop moves to the next station or collect_data ends
SimSampleAndRecord(rand, k) ==
  /\ pc = "sim_sample"
  /\ LET is_hol == is_holiday(now.date)[1]
         p == base_occupied_prob(loc.traffic_volume, loc.hour, loc.weekday, is_hol)
         st == sample_status(p, rand, k)
     IN  /\ status_history' = record_status(status_history, Station.id, st[1], st[2])
         /\ loc' = [loc EXCEPT !.today = now.date, !.base_occupied_prob = p,
                               !.rand = rand]
  /\ IF idx < Len(stations_list)
     THEN /\ idx' = idx + 1
          /\ pc' = "traffic"
     ELSE /\ idx' = idx
          /\ pc' = "done"
  /\ UNCHANGED <<stations, stations_seq, weather_history, traffic_history,
                 calendar_context, calendar_seq>>
  /\ UNCHANGED <<pre, last, calls, demo_stations, now, ticks, cycle, stations_list,
                 log>>

\* A write to the store raises sqlite3.Error (locked or unwritable database):
\* save_calendar_context, record_traffic, record_weather and record_status do
\* not catch it, collect_data does not catch it, and run_collector catches
\* KeyboardInterrupt only, so the exception ends the process.
StorageError ==
  /\ pc \in {"calendar", "traffic", "weather", "sim_sample"}
  /\ pc = "weather" => IndexOf(stations_list, Station) < WeatherSampleLimit
  /\ pc' = "crashed"
  /\ log' = [log EXCEPT !.error = "sqlite3.Error", !.error_idx = idx]
  /\ UNCHANGED store_vars
  /\ UNCHANGED <<pre, last, calls, demo_stations, now, ticks, cycle, stations_list,
                 idx, loc>>

\* Ctrl+C: KeyboardInterrupt is raised in the main thread at whatever
\* statement is executing.  run_collector's try covers only the while loop, so
\* inside a later collect_data() or inside time.sleep() the handler prints
\* "Collector stopped" and the function returns; inside the initial
\* collect_data() nothing catches it.  Rows already committed stay, the rest of
\* the cycle is not run.
StopSignal ==
  /\ pc \notin {"idle", "crashed", "stopped"}
  /\ pc' = IF cycle = 1 /\ pc \notin {"done", "sleeping"} THEN "crashed" ELSE "stopped"
  /\ log' = [log EXCEPT !.error = "KeyboardInterrupt", !.error_idx = idx]
  /\ UNCHANGED store_vars
  /\ UNCHANGED <<pre, last, calls, demo_stations, now, ticks, cycle, stations_list,
                 idx, loc>>

\* ---------------------------------------------------------- specifications
Catalogs == {SubSeq(DemoStations, 1, n) : n \in 0..MaxStations}

CollectorStarts ==
  {[date |-> Date(2025, 6, 5), hour |-> 23], [date |-> Date(2025, 6, 6), hour |-> 8]}

\* run_collector on a fresh database
Init ==
  /\ InitStoreTables
  /\ InitCollectorIdle
  /\ demo_stations \in Catalogs
  /\ now \in CollectorStarts

CoarseNoise == {0}
CoarseSpeedNoise == {0}
CoarseRand == {5000}
CoarseConnectors == {1}

Collect ==
  \/ FirstCollect
  \/ SaveCalendar
  \/ \E noise \in CoarseNoise, sn \in CoarseSpeedNoise : CollectTraffic(noise, sn)
  \/ \E w \in WeatherOutcomes : CollectWeather(w)
  \/ SimReadHour
  \/ SimReadWeekday
  \/ \E noise \in CoarseNoise, sn \in CoarseSpeedNoise : SimFetchTraffic(noise, sn)
  \/ \E rand \in CoarseRand, k \in CoarseConnectors : SimSampleAndRecord(rand, k)
  \/ Tick

Next ==
  \/ Collect
  \/ SyncCatalog({})
  \/ Sleep
  \/ SleepThenCollect

Spec == Init /\ [][Next]_vars

\* run_collector on a database whose writes may fail
NextFault ==
  \/ Collect
  \/ \E failing \in SUBSET (1..MaxStations) : SyncCatalog(failing)
  \/ Sleep
  \/ SleepThenCollect
  \/ StorageError

SpecFault == Init /\ [][NextFault]_vars

\* is_holiday called directly, day after day from 2024-01-01 to 2027-12-31,
\* each date once or several times in a row: the two years of the table, the
\* year before and the year after
CalendarYears == {2024, 2025, 2026, 2027}

CalendarDates ==
  IF last.op # "is_holiday"
  THEN {Date(2024, 1, 1)}
  ELSE {d \in {last.arg[1], next_date(last.arg[1])} : d.year \in CalendarYears}

Call_is_holiday(check_date) ==
  /\ last' = [op |-> "is_holiday", arg |-> <<check_date>>, ret |-> is_holiday(check_date),
              err |-> None,
              again |-> last.op = "is_holiday" /\ last.arg = <<check_date>>]
  /\ UNCHANGED store_vars
  /\ UNCHANGED <<pre, calls>>
  /\ UNCHANGED cycle_vars

NextCalendar == \E check_date \in CalendarDates : Call_is_holiday(check_date)

SpecCalendar == InitStore /\ [][NextCalendar]_vars

\* run_collector with the operator pressing Ctrl+C at any moment
NextStop ==
  \/ Next
  \/ StopSignal

SpecStop == Init /\ [][NextStop]_vars

\* __main__: init_database(); collect_data() -- one cycle on a fresh database
\* with a catalog of one station, started at any hour of a plain weekday
\* (Thursday 2025-06-05), a holiday on a weekday (Friday 2025-06-06), a
\* Saturday and a Sunday, with the draws of the random source spread over
\* their ranges.
OnceDates == {Date(2025, 6, 5), Date(2025, 6, 6), Date(2025, 6, 7), Date(2025, 6, 8)}

Noise == {-100, 0, 100}
SpeedNoise == {-20, 20}
RandDraws == {0, 2500, 5000, 7500, 9499, 9500, 9999}
Connectors == 1..4

InitOnce ==
  /\ InitStoreTables
  /\ InitCollectorIdle
  /\ demo_stations = SubSeq(DemoStations, 1, 1)
  /\ now \in {[date |-> d, hour |-> h] : d \in OnceDates, h \in 0..23}

NextOnce ==
  \/ FirstCollect
  \/ SaveCalendar
  \/ SyncCatalog({})
  \/ \E noise \in Noise, sn \in SpeedNoise : CollectTraffic(noise, sn)
  \/ \E w \in WeatherOutcomes : CollectWeather(w)
  \/ SimReadHour
  \/ SimReadWeekday
  \/ \E noise \in Noise, sn \in SpeedNoise : SimFetchTraffic(noise, sn)
  \/ \E rand \in RandDraws, k \in Connectors : SimSampleAndRecord(rand, k)
  \/ Tick

SpecOnce == InitOnce /\ [][NextOnce]_vars

\* ------------------------------------------------------------------ claims
IsPrefix(a, b) == Len(a) <= Len(b) /\ \A k \in 1..Len(a) : b[k] = a[k]

\* number of rows of a history table that reference the station
RowsOf(table, station_id) ==
  Cardinality({k \in 1..Len(table) : table[k].station_id = station_id})

HasExternalId(station) == "external_id" \in DOMAIN station

\* C1: a call of add_stations_to_db that repeats the list of the call just
\* before it returns 0 and leaves the stations table as that call left it.
C1_SecondUpsertInsertsNothing ==
  (last.op = "add_stations_to_db" /\ last.again)
    => (last.ret = 0 /\ stations = pre.stations)

\* C1 witness: the repeated list holds a station the first call inserted.
C1_Witness ==
  /\ last.op = "add_stations_to_db"
  /\ last.again
  /\ \E k \in 1..Len(last.arg) :
       /\ HasExternalId(last.arg[k])
       /\ Conflicts(stations, last.arg[k]["external_id"])

\* C2: record_status, record_weather and record_traffic called with a station
\* id that no row of stations has raise an error and leave every table as it was.
C2_DanglingAppendFails ==
  (/\ last.op \in {"record_status", "record_weather", "record_traffic"}
   /\ last.arg[1] \notin Ids(pre.stations))
    => (last.err # None /\ Tables = pre)

\* C3: in a cycle on a store of one station whose weather fetch fails, no
\* error is raised, and when the cycle is done it has added one status row
\* and no weather row for the station.
C3_WeatherFailureStillOneStatus ==
  (Len(stations) = 1 /\ log.weather_failed # {})
    => /\ log.error = None
       /\ pc # "crashed"
       /\ pc = "done" =>
            /\ RowsOf(status_history, stations[1].id)
                 = RowsOf(pre.status_history, stations[1].id) + 1
            /\ RowsOf(weather_history, stations[1].id)
                 = RowsOf(pre.weather_history, stations[1].id)

\* C3 witness: a finished cycle on one station whose weather fetch failed.
C3_Witness ==
  /\ pc = "done"
  /\ Len(stations) = 1
  /\ stations[1].id \in log.weather_failed

\* C4: every status row a cycle writes has a status among available,
\* occupied and unknown, with 1..4 available connectors when available and
\* 0 otherwise.
C4_ConnectorsMatchStatus ==
  \A k \in 1..Len(status_history) :
    LET row == status_history[k]
    IN  /\ row.status \in {"available", "occupied", "unknown"}
        /\ row.status = "available" => row.available_connectors \in 1..4
        /\ row.status \in {"occupied", "unknown"} => row.available_connectors = 0

\* C4 witness: a cycle wrote an occupied row.
C4_Witness ==
  \E k \in 1..Len(status_history) :
    status_history[k].status = "occupied" /\ status_history[k].available_connectors = 0

\* C5: when a write of one station's record raises a storage error, the
\* cycle still ends with one new status row for every station after it.
C5_StorageErrorDoesNotAbort ==
  (/\ pc \in {"done", "crashed"}
   /\ log.error # None
   /\ log.error_idx >= 1)
    => \A k \in (log.error_idx + 1)..Len(stations_list) :
         RowsOf(status_history, stations_list[k].id)
           = RowsOf(pre.status_history, stations_list[k].id) + 1

\* C6: the stations table never holds two rows with the same external_id.
C6_OneRowPerExternalId ==
  \A i, j \in 1..Len(stations) :
    stations[i].external_id = stations[j].external_id => i = j

\* C6 witness: a list that names one external_id twice has been upserted.
C6_Witness ==
  /\ last.op = "add_stations_to_db"
  /\ \E i, j \in 1..Len(last.arg) :
       /\ i # j
       /\ HasExternalId(last.arg[i]) /\ HasExternalId(last.arg[j])
       /\ last.arg[i]["external_id"] = last.arg[j]["external_id"]
       /\ Conflicts(stations, last.arg[i]["external_id"])

\* C7: add_stations_to_db leaves every stored row as it was, raises nothing,
\* and returns the number of rows it added.
C7_UpsertKeepsStoredRows ==
  last.op = "add_stations_to_db"
    => /\ IsPrefix(pre.stations, stations)
       /\ last.err = None
       /\ last.ret = Len(stations) - Len(pre.stations)

\* C7 witness: the list held a station whose external_id was stored with
\* another name.
C7_Witness ==
  /\ last.op = "add_stations_to_db"
  /\ \E k \in 1..Len(last.arg), j \in 1..Len(pre.stations) :
       /\ HasExternalId(last.arg[k])
       /\ pre.stations[j].external_id = last.arg[k]["external_id"]
       /\ pre.stations[j].name # last.arg[k]["name"]

\* C8: the calendar table holds at most one row per date, the rows written
\* before the current cycle are unchanged, and once the cycle has saved its
\* calendar entry there is exactly one row for that date.
C8_OneCalendarRowPerDate ==
  /\ \A i, j \in 1..Len(calendar_context) :
       calendar_context[i].date = calendar_context[j].date => i = j
  /\ IsPrefix(pre.calendar_context, calendar_context)
  /\ log.today # None =>
       Cardinality({k \in 1..Len(calendar_context) :
                      strftime(calendar_context[k].date) = log.today}) = 1

\* C8 witness: a second cycle has run on the date of the first one.
C8_Witness ==
  /\ cycle >= 2
  /\ pc = "done"
  /\ Len(pre.calendar_context) = 1
  /\ strftime(pre.calendar_context[1].date) = log.today

\* C9: every row of the status, weather and traffic history references the
\* id of a row of stations.
C9_HistoryReferencesStations ==
  /\ \A k \in 1..Len(status_history) : status_history[k].station_id \in Ids(stations)
  /\ \A k \in 1..Len(weather_history) : weather_history[k].station_id \in Ids(stations)
  /\ \A k \in 1..Len(traffic_history) : traffic_history[k].station_id \in Ids(stations)

\* C9 witness: a finished cycle has written rows to the three history tables.
C9_Witness ==
  /\ pc = "done"
  /\ Len(status_history) >= 2
  /\ Len(weather_history) >= 1
  /\ Len(traffic_history) >= 2

\* C10: a completed cycle has added exactly one status row for every station
\* in the store, and after k completed cycles every station has k status rows.
C10_OneStatusPerStationPerCycle ==
  pc = "done" =>
    \A s \in 1..Len(stations) :
      /\ RowsOf(status_history, stations[s].id)
           = RowsOf(pre.status_history, stations[s].id) + 1
      /\ RowsOf(status_history, stations[s].id) = cycle

\* C10 witness: the second cycle has completed on a store of two stations.
C10_Witness ==
  /\ pc = "done"
  /\ cycle = 2
  /\ Len(stations) = 2
  /\ Len(status_history) = 4

\* C11: no step removes or changes a stored row: each table before a step is
\* a prefix of the table after it.
C11_AppendOnly ==
  [][/\ IsPrefix(stations, stations')
     /\ IsPrefix(status_history, status_history')
     /\ IsPrefix(weather_history, weather_history')
     /\ IsPrefix(traffic_history, traffic_history')
     /\ IsPrefix(calendar_context, calendar_context')]_vars

\* C11 witness: an operation has acted on a table that already held a row
\* for the same station, external_id or date.
C11_Witness ==
  \/ /\ last.op = "record_status"
     /\ Len(pre.status_history) >= 1
     /\ pre.status_history[1].station_id = last.arg[1]
     /\ Len(status_history) = Len(pre.status_history) + 1
  \/ /\ last.op = "save_calendar_context"
     /\ DateStored(pre.calendar_context, last.arg[1].date)

\* C12: a stop signal takes effect only between cycles: when the collector has
\* been stopped, the cycle it had begun has saved its calendar row and has
\* written one status row for every station of its station list.
C12_StopLeavesCycleComplete ==
  log.error = "KeyboardInterrupt" =>
    /\ log.today # None
    /\ stations_list = get_all_stations(stations)
    /\ \A k \in 1..Len(stations_list) :
         RowsOf(status_history, stations_list[k].id)
           = RowsOf(pre.status_history, stations_list[k].id) + 1

\* C13: a cycle begins only as the step from "not started" or from the sleep
\* that follows a finished cycle; the sleep is entered only from a finished
\* cycle and is left only by starting exactly the next cycle, however long
\* the finished cycle took.
C13_CyclesNeverOverlap ==
  [][/\ cycle' # cycle =>
          /\ cycle' = cycle + 1
          /\ pc \in {"idle", "sleeping"}
          /\ pc' = "calendar"
     /\ (pc # "sleeping" /\ pc' = "sleeping") => pc = "done"
     /\ (pc = "sleeping" /\ pc' # "sleeping") => cycle' = cycle + 1]_vars

\* C13 witness: a second cycle is under way after a first one during which
\* the clock moved on.
C13_Witness ==
  /\ cycle = 2
  /\ ticks >= 1
  /\ pc = "sim_sample"
  /\ Len(status_history) >= 1

\* the holiday table of the source, as (year, month, day) triples
HolidayTable ==
  {<<2025, 1, 1>>, <<2025, 1, 6>>, <<2025, 4, 18>>, <<2025, 4, 20>>, <<2025, 4, 21>>,
   <<2025, 5, 1>>, <<2025, 5, 29>>, <<2025, 6, 6>>, <<2025, 6, 20>>, <<2025, 6, 21>>,
   <<2025, 12, 24>>, <<2025, 12, 25>>, <<2025, 12, 26>>, <<2025, 12, 31>>,
   <<2026, 1, 1>>, <<2026, 1, 6>>, <<2026, 4, 3>>, <<2026, 4, 5>>, <<2026, 4, 6>>,
   <<2026, 5, 1>>, <<2026, 5, 14>>, <<2026, 6, 6>>, <<2026, 6, 19>>, <<2026, 6, 20>>,
   <<2026, 12, 24>>, <<2026, 12, 25>>, <<2026, 12, 26>>, <<2026, 12, 31>>}

Listed(d) == <<d.year, d.month, d.day>> \in HolidayTable

\* C14: every call of is_holiday returns (TRUE, "Swedish Holiday") for a date
\* of the holiday table, weekend or not; otherwise (TRUE, "Weekend") for a
\* Saturday or Sunday; otherwise (FALSE, None); and a call that repeats the
\* date of the call before it returns what that call returned.
C14_ThreeWayRule ==
  [][last'.op = "is_holiday" =>
       /\ last'.ret = IF Listed(last'.arg[1]) THEN <<TRUE, "Swedish Holiday">>
                      ELSE IF weekday_of(last'.arg[1]) \in {5, 6} THEN <<TRUE, "Weekend">>
                      ELSE <<FALSE, None>>
       /\ last'.again => last'.ret = last.ret]_vars

\* C14 witness: Midsommardagen 2025, a Saturday of the holiday table, has been
\* classified twice in a row.
C14_Witness ==
  /\ last.op = "is_holiday"
  /\ last.again
  /\ last.arg[1] = Date(2025, 6, 21)
  /\ weekday_of(last.arg[1]) = 5
  /\ last.ret = <<TRUE, "Swedish Holiday">>

\* a call of simulate_status_with_traffic has returned and its status row is
\* the last row of status_history
Derived == loc.rand >= 0

LastStatus == status_history[Len(status_history)]

\* C15: every stored traffic row, and every sample the status derivation
\* fetched, has a traffic_volume between 0 and 1 (thousandths: 0..1000).
C15_TrafficVolumeInRange ==
  /\ \A k \in 1..Len(traffic_history) : traffic_history[k].traffic_volume \in 0..1000
  /\ loc.traffic_hour >= 0 => loc.traffic_volume \in 0..1000

\* C15 witness: a stored row at the upper end of the range (evening rush,
\* noise +0.1).
C15_Witness ==
  \E k \in 1..Len(traffic_history) : traffic_history[k].traffic_volume = 1000

\* C16: the probability a derivation used is 0.7 x traffic_volume, +0.15 on a
\* weekday rush hour, -0.3 on a weekday night hour, +0.2 when today is a
\* holiday (every Saturday and Sunday is one), with no clamping; and for
\* traffic_volume 0.5, Monday, hour 8, no holiday it is 0.5.
C16_AdditiveUnclamped ==
  /\ Derived =>
       /\ loc.base_occupied_prob
            = 7 * loc.traffic_volume
              + (IF loc.weekday < 5 /\ loc.hour \in {7, 8, 9, 16, 17, 18} THEN 1500 ELSE 0)
              - (IF loc.weekday < 5 /\ (loc.hour >= 22 \/ loc.hour <= 5) THEN 3000 ELSE 0)
              + (IF is_holiday(loc.today)[1] THEN 2000 ELSE 0)
       /\ weekday_of(loc.today) \in {5, 6} => is_holiday(loc.today)[1]
  /\ base_occupied_prob(500, 8, 0, FALSE) = 5000

\* C16 witness: a derivation on a holiday Friday at evening rush with traffic
\* volume 1.0 used the probability 1.05.
C16_Witness ==
  /\ Derived
  /\ loc.weekday = 4
  /\ loc.hour \in {16, 17, 18}
  /\ is_holiday(loc.today)[1]
  /\ loc.base_occupied_prob = 10500

\* C17: with u the draw and p the probability of a derivation, the status is
\* available exactly when u < 1 - p, occupied exactly when not so and
\* u < 0.95, unknown otherwise; when p exceeds 1 it is never available.
C17_StatusThresholds ==
  Derived =>
    LET u == loc.rand
        p == loc.base_occupied_prob
    IN  /\ LastStatus.status = "available" <=> u < 10000 - p
        /\ LastStatus.status = "occupied" <=> (~(u < 10000 - p) /\ u < 9500)
        /\ LastStatus.status = "unknown" <=> (~(u < 10000 - p) /\ ~(u < 9500))
        /\ p > 10000 => LastStatus.status # "available"

\* C17 witness: with p above 1 the smallest draw gave occupied.
C17_Witness ==
  /\ Derived
  /\ loc.base_occupied_prob > 10000
  /\ loc.rand = 0
  /\ LastStatus.status = "occupied"

\* C18: the traffic volume a derivation used is the volume of the traffic row
\* the same cycle stored for that station.
C18_StatusFromRecordedTraffic ==
  Derived =>
    \E k \in (Len(pre.traffic_history) + 1)..Len(traffic_history) :
      /\ traffic_history[k].station_id = loc.station
      /\ traffic_history[k].traffic_volume = loc.traffic_volume

\* C19: a derivation begun at a night hour of a weekday that is not a holiday
\* ends with status available and 1..4 available connectors.
C19_WeekdayNightAlwaysAvailable ==
  (/\ Derived
   /\ weekday_of(loc.entered.date) < 5
   /\ ~Listed(loc.entered.date)
   /\ (loc.entered.hour >= 22 \/ loc.entered.hour <= 5))
    => /\ LastStatus.status = "available"
       /\ LastStatus.available_connectors \in 1..4

\* C20: the hour of the adjustment, the hour of the traffic band, the weekday
\* and the date of the holiday flag of one derivation are those of one clock
\* reading.
C20_OneClockReading ==
  Derived =>
    /\ loc.traffic_hour = loc.hour
    /\ loc.weekday = weekday_of(loc.today)
    /\ \/ (loc.today = loc.entered.date /\ loc.hour = loc.entered.hour)
       \/ (loc.today = now.date /\ loc.hour = now.hour)

====
